---- MODULE Spec2Model ----
(***************************************************************************)
(* Model of the schema-subsetting scripts of ai-docs/specs/20250929-openai-rs: *)
(*   extract_chat_schemas.py  (reference scan + closure + side file)        *)
(*   create_trimmed_spec.py   (projection of the original document)         *)
(* and of scripts/update_context_symlinks.py and scripts/filter-cargo-toml.py. *)
(***************************************************************************)
EXTENDS Integers, Sequences, FiniteSets, TLC

VARIABLES
    spec,               \* the parsed document (yaml.safe_load), shared input of both scripts
    pc,                 \* position of extract_chat_schemas.py
    schemas,            \* extract: the catalog, spec['components']['schemas']
    all_found_schemas,  \* extract: the visited set
    to_process,         \* extract: the work queue (a list)
    extracted_schemas,  \* extract: the returned mapping name -> definition
    stdout,             \* extract: what main() printed
    file,               \* chat_completion_schemas.txt, a sequence of lines
    tpc,                \* position of create_trimmed_spec.py
    loaded,             \* trim: the name set read by load_chat_completion_schemas
    trimmed_spec,       \* trim: the document being built
    exc,                \* trim: the exception that ended the run, "none" if none
    out,                \* trim: the summary printed after the dump
    shared,             \* trim: the key paths of trimmed_spec whose value is an object of spec
    repo_tree,          \* symlinks: the documentation files under the repository root
    context_dir,        \* symlinks: ai-docs/context, whether it exists and its entries
    args,               \* symlinks: the parsed command line of the current run
    doc_files,          \* symlinks: the documentation files main() has still to link
    actions,            \* symlinks: the actions of the current run
    summaries,          \* symlinks: the summary each finished run printed
    spc,                \* symlinks: position of update_context_symlinks.py
    arg_schema,         \* scan: the node a caller passes to find_schema_references
    arg_visited,        \* scan: the caller's visited set, <<>> when none is passed, else <<set>>
    ret_refs,           \* scan: the sets the caller's calls have returned, in order
    lines,              \* cargo: content.split("\n") of the input Cargo.toml
    idx,                \* cargo: the index of the line the for loop takes next
    filtered_lines,     \* cargo: the lines kept so far
    in_members_section, \* cargo: flag of filter_cargo_toml
    in_workspace_deps_section, \* cargo: flag of filter_cargo_toml
    skip_line,          \* cargo: flag of filter_cargo_toml
    output_file         \* cargo: the lines of the output file, <<>> before it is written

vars == <<spec, pc, schemas, all_found_schemas, to_process, extracted_schemas, stdout,
          file, tpc, loaded, trimmed_spec, exc, out, shared,
          repo_tree, context_dir, args, doc_files, actions, summaries, spc,
          arg_schema, arg_visited, ret_refs,
          lines, idx, filtered_lines, in_members_section, in_workspace_deps_section,
          skip_line, output_file>>

xvars == <<pc, schemas, all_found_schemas, to_process, extracted_schemas, stdout>>
tvars == <<tpc, loaded, trimmed_spec, exc, out, shared>>
lvars == <<repo_tree, context_dir, args, doc_files, actions, summaries, spc>>
svars == <<arg_schema, arg_visited, ret_refs>>
cvars == <<lines, idx, filtered_lines, in_members_section, in_workspace_deps_section,
           skip_line, output_file>>

-----------------------------------------------------------------------------
(* Bounds of the model.                                                     *)

\* at most this many names have an entry in components.schemas
MaxDefined == 3

-----------------------------------------------------------------------------
(* Document nodes: what yaml.safe_load returns.  A node is a dict, a list,  *)
(* a str or another scalar.  A str is the sequence of its atoms, where an   *)
(* atom is "/" or a maximal slash-free chunk; a dict is the sequence of     *)
(* its <<key, value>> entries in insertion order; a list is kept as         *)
(* entries with the key "".                                                 *)

Str(s)     == [t |-> "str",  s |-> s,    kv |-> <<>>]
Other      == [t |-> "other", s |-> <<>>, kv |-> <<>>]
Dict(kv)   == [t |-> "dict", s |-> <<>>, kv |-> kv]
List(xs)   == [t |-> "list", s |-> <<>>, kv |-> [i \in 1..Len(xs) |-> <<"", xs[i]>>]]

Keys(d)    == {d.kv[i][1] : i \in 1..Len(d.kv)}
\* d[key] of a dict that has the key
Item(d, key) == d.kv[CHOOSE i \in 1..Len(d.kv) : d.kv[i][1] = key][2]
\* d.get(key, default) of a dict
Get(d, key, default) == IF key \in Keys(d) THEN Item(d, key) ELSE default
\* d[key] = value : replaces the value in place, or appends a new entry
SetItem(d, key, value) ==
    IF key \in Keys(d)
    THEN Dict([i \in 1..Len(d.kv) |-> IF d.kv[i][1] = key THEN <<key, value>> ELSE d.kv[i]])
    ELSE Dict(Append(d.kv, <<key, value>>))

\* Python evaluates an expression once and binds the value to a name:
\* Bind(v, F) is F applied to the value of v
Bind(v, F(_)) == CHOOSE r \in { F(x) : x \in {v} } : TRUE

\* value.split('/') : the segments between the "/" atoms ("" for an empty one).
\* The k-th segment lies after the (k-1)-th "/" and before the k-th.
split(s) ==
    Bind({i \in 1..Len(s) : s[i] = "/"}, LAMBDA slashes :
        LET slash(k) == CHOOSE i \in slashes : Cardinality({j \in slashes : j <= i}) = k
            start(k) == IF k = 1 THEN 1 ELSE slash(k - 1) + 1
            end(k)   == IF k = Cardinality(slashes) + 1 THEN Len(s) ELSE slash(k) - 1
        IN  [k \in 1..Cardinality(slashes) + 1 |->
                IF end(k) < start(k) THEN "" ELSE s[start(k)]])

\* (variant) line 22 as value.split('/')[0]
ref_name_first_segment(value) == Bind(split(value), LAMBDA segments : segments[1])

\* value.split('/')[-1]
ref_name(value) == Bind(split(value), LAMBDA segments : segments[Len(segments)])

\* (variant) the scan without the test key == '$ref': any str value of a dict
\* is taken for a reference
RECURSIVE fsr_scan_any_key(_, _, _, _)
fsr_scan_any_key(schema, i, refs, visited) ==
    IF i > Len(schema.kv) THEN [refs |-> refs, visited |-> visited]
    ELSE LET value == schema.kv[i][2] IN
         IF schema.t = "dict" /\ value.t = "str"
         THEN LET name == ref_name(value.s) IN
              IF name \notin visited
              THEN fsr_scan_any_key(schema, i + 1, refs \cup {name}, visited \cup {name})
              ELSE fsr_scan_any_key(schema, i + 1, refs, visited)
         ELSE IF value.t \in {"dict", "list"}
         THEN LET sub == fsr_scan_any_key(value, 1, {}, visited) IN
              fsr_scan_any_key(schema, i + 1, refs \cup sub.refs, sub.visited)
         ELSE fsr_scan_any_key(schema, i + 1, refs, visited)

\* (variant) the scan that descends into dict values only: line 26 as
\* isinstance(value, dict), and no branch for a list
RECURSIVE fsr_scan_dicts_only(_, _, _, _)
fsr_scan_dicts_only(schema, i, refs, visited) ==
    IF i > Len(schema.kv) \/ schema.t # "dict" THEN [refs |-> refs, visited |-> visited]
    ELSE LET key   == schema.kv[i][1]
             value == schema.kv[i][2]
         IN
         IF key = "$ref" /\ value.t = "str"
         THEN LET name == ref_name(value.s) IN
              IF name \notin visited
              THEN fsr_scan_dicts_only(schema, i + 1, refs \cup {name}, visited \cup {name})
              ELSE fsr_scan_dicts_only(schema, i + 1, refs, visited)
         ELSE IF value.t = "dict"
         THEN LET sub == fsr_scan_dicts_only(value, 1, {}, visited) IN
              fsr_scan_dicts_only(schema, i + 1, refs \cup sub.refs, sub.visited)
         ELSE fsr_scan_dicts_only(schema, i + 1, refs, visited)

\* (variant) lines 23-25 without visited.add(ref_name): the visited set is
\* read and never written
RECURSIVE fsr_scan_no_mark(_, _, _, _)
fsr_scan_no_mark(schema, i, refs, visited) ==
    IF i > Len(schema.kv) THEN [refs |-> refs, visited |-> visited]
    ELSE LET key   == schema.kv[i][1]
             value == schema.kv[i][2]
         IN
         IF schema.t = "dict" /\ key = "$ref" /\ value.t = "str"
         THEN LET name == ref_name(value.s) IN
              IF name \notin visited
              THEN fsr_scan_no_mark(schema, i + 1, refs \cup {name}, visited)
              ELSE fsr_scan_no_mark(schema, i + 1, refs, visited)
         ELSE IF value.t \in {"dict", "list"}
         THEN LET sub == fsr_scan_no_mark(value, 1, {}, visited) IN
              fsr_scan_no_mark(schema, i + 1, refs \cup sub.refs, sub.visited)
         ELSE fsr_scan_no_mark(schema, i + 1, refs, visited)

\* find_schema_references(schema, visited): the returned refs and the visited
\* set as the call leaves it.  fsr_scan scans the entries of a dict or list
\* in order from entry i on, with the refs and the visited set so far;
\* fsr_call is a call by value: the arguments a are evaluated once, then bound.
RECURSIVE fsr_scan(_, _, _, _)
fsr_call(a) == Bind(a, LAMBDA x : fsr_scan(x[1], x[2], x[3], x[4]))

fsr_scan(schema, i, refs, visited) ==
    IF i > Len(schema.kv) THEN [refs |-> refs, visited |-> visited]
    ELSE LET key   == schema.kv[i][1]
             value == schema.kv[i][2]
         IN
         IF schema.t = "dict" /\ key = "$ref" /\ value.t = "str"
         THEN Bind(ref_name(value.s), LAMBDA name :
                  IF name \notin visited
                  THEN fsr_call(<<schema, i + 1, refs \cup {name}, visited \cup {name}>>)
                  ELSE fsr_call(<<schema, i + 1, refs, visited>>))
         ELSE IF value.t \in {"dict", "list"}
         THEN Bind(fsr_call(<<value, 1, {}, visited>>), LAMBDA sub :
                  fsr_call(<<schema, i + 1, refs \cup sub.refs, sub.visited>>))
         ELSE fsr_call(<<schema, i + 1, refs, visited>>)

\* (variant) the scan that reads the '$ref' of the definition itself and does
\* not descend into nested dicts and lists
find_top_level_references(schema, visited) ==
    IF schema.t = "dict" /\ "$ref" \in Keys(schema) /\ Item(schema, "$ref").t = "str"
          /\ ref_name(Item(schema, "$ref").s) \notin visited
    THEN [refs |-> {ref_name(Item(schema, "$ref").s)},
          visited |-> visited \cup {ref_name(Item(schema, "$ref").s)}]
    ELSE [refs |-> {}, visited |-> visited]

find_schema_references(schema, visited) ==
    IF schema.t \in {"dict", "list"}
    THEN fsr_call(<<schema, 1, {}, visited>>)
    ELSE [refs |-> {}, visited |-> visited]

-----------------------------------------------------------------------------
(* The inputs: documents the scripts can be given.                          *)

\* extract_chat_completion_schemas: the root names
chat_schemas ==
    {"CreateChatCompletionRequest", "CreateChatCompletionResponse",
     "CreateChatCompletionStreamResponse", "ChatCompletionList"}

\* schema names of the document that are not roots
OtherNames == {"ChatCompletionTool", "CompletionUsage"}

Universe == chat_schemas \cup OtherNames

\* the names in the order sorted() gives them (code-point order)
NameOrder ==
    <<"ChatCompletionList", "ChatCompletionTool", "CompletionUsage",
      "CreateChatCompletionRequest", "CreateChatCompletionResponse",
      "CreateChatCompletionStreamResponse">>

\* sorted(names)
sorted(names) == SelectSeq(NameOrder, LAMBDA n : n \in names)

\* the orders in which a set can be iterated or turned into a list
Orders(S) == {q \in [1..Cardinality(S) -> S] : \A i, j \in 1..Cardinality(S) : q[i] = q[j] => i = j}

RefTo(n)   == Str(<<"#", "/", "components", "/", "schemas", "/", n>>)
\* no reference: strings that look like references, stored under other keys
Plain      == Dict(<< <<"type", Str(<<"object">>)>>,
                      <<"description", RefTo("ChatCompletionTool")>>,
                      <<"enum", List(<< RefTo("CompletionUsage") >>)>> >>)
\* a reference at the top of the definition, to another file's schema
Direct(n)  == Dict(<< <<"$ref", Str(<<"common.yml#", "/", n>>)>> >>)
\* a reference nested in dicts (the self-reference shape of a recursive type)
Nested(n)  == Dict(<< <<"type", Str(<<"object">>)>>,
                      <<"properties", Dict(<< <<"self", Dict(<< <<"$ref", RefTo(n)>> >>)>> >>)>> >>)
\* references inside a list and a list of lists, next to a plain string
OneOf(n, m) == Dict(<< <<"oneOf", List(<< Dict(<< <<"$ref", RefTo(n)>> >>),
                                          List(<< Dict(<< <<"$ref", RefTo(m)>> >>),
                                                  Dict(<< <<"$ref", RefTo(n)>> >>) >>),
                                          Str(<<"null">>) >>)>> >>)
\* '$ref' entries whose value is no string: a scalar, and a dict holding a bare reference
NonString(n) == Dict(<< <<"$ref", Other>>,
                        <<"items", Dict(<< <<"$ref", Dict(<< <<"$ref", Str(<<n>>)>> >>)>> >>)>> >>)

Definitions ==
    { Plain,
      Direct("CreateChatCompletionRequest"),
      Nested("ChatCompletionTool"),
      OneOf("ChatCompletionTool", "CompletionUsage"),
      NonString("CompletionUsage") }

\* a components.schemas section: the defined names in document order
Catalog(defs) ==
    LET names == sorted(DOMAIN defs)
    IN  Dict([i \in 1..Len(names) |-> <<names[i], defs[names[i]]>>])

Catalogs ==
    UNION { { Catalog(defs) : defs \in [D -> Definitions] } :
            D \in {D \in SUBSET Universe : Cardinality(D) <= MaxDefined} }

Operation(n) == Dict(<< <<"post", Dict(<< <<"operationId", Str(<<n>>)>>,
                                         <<"requestBody", Dict(<< <<"$ref", RefTo("CreateChatCompletionRequest")>> >>)>> >>)>> >>)
Info       == Dict(<< <<"title", Str(<<"OpenAI API">>)>>,
                      <<"description", Str(<<"The OpenAI REST API">>)>>,
                      <<"version", Str(<<"2.3.0">>)>> >>)
Servers    == List(<< Dict(<< <<"url", Str(<<"https:", "/", "/", "api.openai.com", "/", "v1">>)>> >>) >>)
Security   == List(<< Dict(<< <<"ApiKeyAuth", List(<<>>)>> >>) >>)
Paths      == Dict(<< <<"/chat/completions", Operation("createChatCompletion")>>,
                      <<"/completions", Operation("createCompletion")>> >>)
SecuritySchemes == Dict(<< <<"ApiKeyAuth", Dict(<< <<"type", Str(<<"http">>)>> >>)>> >>)

\* a whole specification document around one schema catalog
Document(catalog) ==
    Dict(<< <<"openapi", Str(<<"3.1.0">>)>>,
            <<"info", Info>>,
            <<"servers", Servers>>,
            <<"security", Security>>,
            <<"paths", Paths>>,
            <<"components", Dict(<< <<"securitySchemes", SecuritySchemes>>,
                                    <<"schemas", catalog>> >>)>> >>)

\* documents without a components section, or without schemas in it
BareDocuments ==
    { Dict(<< <<"openapi", Str(<<"3.1.0">>)>>, <<"paths", Paths>> >>),
      Dict(<< <<"openapi", Str(<<"3.1.0">>)>>, <<"paths", Paths>>,
              <<"components", Dict(<< <<"securitySchemes", SecuritySchemes>> >>)>> >>) }

Documents == { Document(c) : c \in Catalogs } \cup BareDocuments

-----------------------------------------------------------------------------
(* extract_chat_schemas.py                                                  *)

EmptyDict == Dict(<<>>)

\* spec.get('components', {}).get('schemas', {})
components_schemas == Get(Get(spec, "components", EmptyDict), "schemas", EmptyDict)

\* (variant) line 62 without `ref in schemas`
is_new_or_undefined(ref) == ref \notin all_found_schemas

\* (variant) line 62 with `ref not in all_found_schemas` tested only once the
\* queue is longer than the found set: a found name is queued again
is_new_or_requeued(ref) ==
    /\ ref \in Keys(schemas)
    /\ (ref \notin all_found_schemas \/ Len(to_process) <= Cardinality(all_found_schemas))

\* line 62: a discovered name is taken when it is not yet found and is defined
is_new(ref) == ref \notin all_found_schemas /\ ref \in Keys(schemas)

\* (variant) lines 61-64 leaving the for loop after the first reference that
\* is new and defined
ProcessNext_first_ref ==
    /\ pc = "loop"
    /\ to_process # <<>>
    /\ \E schema_name \in {Head(to_process)} :
         IF schema_name \in Keys(schemas)
         THEN \E refs \in {find_schema_references(Item(schemas, schema_name), {}).refs} :
              \E fresh \in {{ref \in refs : is_new(ref)}} :
              \E order \in Orders(fresh) :
                  /\ all_found_schemas' = all_found_schemas \cup
                         (IF order = <<>> THEN {} ELSE {order[1]})
                  /\ to_process' = Tail(to_process) \o
                         (IF order = <<>> THEN <<>> ELSE <<order[1]>>)
         ELSE /\ all_found_schemas' = all_found_schemas
              /\ to_process' = Tail(to_process)
    /\ UNCHANGED <<spec, pc, schemas, extracted_schemas, stdout, file, tvars, lvars, svars, cvars>>

\* (variant) lines 63-64 without all_found_schemas.add(ref): a discovered
\* name is queued and not marked as found
ProcessNext_queue_only ==
    /\ pc = "loop"
    /\ to_process # <<>>
    /\ \E schema_name \in {Head(to_process)} :
         IF schema_name \in Keys(schemas)
         THEN \E refs \in {find_schema_references(Item(schemas, schema_name), {}).refs} :
              \E fresh \in {{ref \in refs : is_new(ref)}} :
              \E order \in Orders(fresh) :
                  /\ all_found_schemas' = all_found_schemas
                  /\ to_process' = IF Len(to_process) <= Cardinality(Keys(schemas))
                                   THEN Tail(to_process) \o order
                                   ELSE Tail(to_process)
         ELSE /\ all_found_schemas' = all_found_schemas
              /\ to_process' = Tail(to_process)
    /\ UNCHANGED <<spec, pc, schemas, extracted_schemas, stdout, file, tvars, lvars, svars, cvars>>

\* (variant) line 56 also discarding the popped name from the found set
ProcessNext_forget_scanned ==
    /\ pc = "loop"
    /\ to_process # <<>>
    /\ \E schema_name \in {Head(to_process)} :
         IF schema_name \in Keys(schemas)
         THEN \E refs \in {find_schema_references(Item(schemas, schema_name), {}).refs} :
              \E fresh \in {{ref \in refs : is_new(ref)}} :
              \E order \in Orders(fresh) :
                  /\ all_found_schemas' = (all_found_schemas \cup fresh) \ {schema_name}
                  /\ to_process' = Tail(to_process) \o order
         ELSE /\ all_found_schemas' = all_found_schemas \ {schema_name}
              /\ to_process' = Tail(to_process)
    /\ UNCHANGED <<spec, pc, schemas, extracted_schemas, stdout, file, tvars, lvars, svars, cvars>>

\* (variant) line 56 as to_process.pop(): the name is taken from the back
ProcessNext_pop_last ==
    /\ pc = "loop"
    /\ to_process # <<>>
    /\ \E schema_name \in {to_process[Len(to_process)]} :
       \E rest \in {SubSeq(to_process, 1, Len(to_process) - 1)} :
         IF schema_name \in Keys(schemas)
         THEN \E refs \in {find_schema_references(Item(schemas, schema_name), {}).refs} :
              \E fresh \in {{ref \in refs : is_new(ref)}} :
              \E order \in Orders(fresh) :
                  /\ all_found_schemas' = all_found_schemas \cup fresh
                  /\ to_process' = rest \o order
         ELSE /\ all_found_schemas' = all_found_schemas
              /\ to_process' = rest
    /\ UNCHANGED <<spec, pc, schemas, extracted_schemas, stdout, file, tvars, lvars, svars, cvars>>

\* one iteration of the while loop: pop the front name, scan its definition,
\* append the references that are new and defined, in the order the set
\* refs is iterated
ProcessNext ==
    /\ pc = "loop"
    /\ to_process # <<>>
    /\ \E schema_name \in {Head(to_process)} :
         IF schema_name \in Keys(schemas)
         THEN \E refs \in {find_schema_references(Item(schemas, schema_name), {}).refs} :
              \E fresh \in {{ref \in refs : is_new(ref)}} :
              \E order \in Orders(fresh) :
                  /\ all_found_schemas' = all_found_schemas \cup fresh
                  /\ to_process' = Tail(to_process) \o order
         ELSE /\ all_found_schemas' = all_found_schemas
              /\ to_process' = Tail(to_process)
    /\ UNCHANGED <<spec, pc, schemas, extracted_schemas, stdout, file, tvars, lvars, svars, cvars>>

\* (variant) lines 68-70 without `if schema_name in schemas`, reading the
\* definition with schemas.get(schema_name)
ExtractFound_unchecked ==
    /\ pc = "loop"
    /\ to_process = <<>>
    /\ extracted_schemas' =
           [schema_name \in all_found_schemas |-> Get(schemas, schema_name, Other)]
    /\ pc' = "extracted"
    /\ UNCHANGED <<spec, schemas, all_found_schemas, to_process, stdout, file, tvars, lvars, svars, cvars>>

\* (variant) lines 68-70 iterating over schemas instead of all_found_schemas
ExtractFound_whole_catalog ==
    /\ pc = "loop"
    /\ to_process = <<>>
    /\ extracted_schemas' = [schema_name \in Keys(schemas) |-> Item(schemas, schema_name)]
    /\ pc' = "extracted"
    /\ UNCHANGED <<spec, schemas, all_found_schemas, to_process, stdout, file, tvars, lvars, svars, cvars>>

\* (variant) line 70 as extracted_schemas[schema_name] = schemas.pop(schema_name):
\* the definitions are moved out of the catalog, which is the document's
ExtractFound_pop ==
    /\ pc = "loop"
    /\ to_process = <<>>
    /\ extracted_schemas' =
           [schema_name \in all_found_schemas \cap Keys(schemas) |-> Item(schemas, schema_name)]
    /\ schemas' = Dict(SelectSeq(schemas.kv, LAMBDA e : e[1] \notin all_found_schemas))
    /\ spec' = IF "components" \in Keys(spec) /\ "schemas" \in Keys(Item(spec, "components"))
               THEN SetItem(spec, "components",
                            SetItem(Item(spec, "components"), "schemas",
                                    Dict(SelectSeq(schemas.kv,
                                                   LAMBDA e : e[1] \notin all_found_schemas))))
               ELSE spec
    /\ pc' = "extracted"
    /\ UNCHANGED <<all_found_schemas, to_process, stdout, file, tvars, lvars, svars, cvars>>

\* the loop has ended: collect the found schemas that are defined, and return
ExtractFound ==
    /\ pc = "loop"
    /\ to_process = <<>>
    /\ extracted_schemas' =
           [schema_name \in all_found_schemas \cap Keys(schemas) |-> Item(schemas, schema_name)]
    /\ pc' = "extracted"
    /\ UNCHANGED <<spec, schemas, all_found_schemas, to_process, stdout, file, tvars, lvars, svars, cvars>>

\* doc.get('components', {}).get('schemas', {}) of any document (line 40)
schemas_of(doc) == Get(Get(doc, "components", EmptyDict), "schemas", EmptyDict)

\* lines 55-64 as a function: the visited set when the queue has run empty,
\* from the visited set `found` and the work queue `queue`; the references
\* found by one scan are queued in sorted order
RECURSIVE closure_loop(_, _, _)
closure_loop(catalog, found, queue) ==
    IF queue = <<>> THEN found
    ELSE LET schema_name == Head(queue) IN
         IF schema_name \in Keys(catalog)
         THEN LET refs  == find_schema_references(Item(catalog, schema_name), {}).refs
                  fresh == {ref \in refs : ref \notin found /\ ref \in Keys(catalog)}
              IN  closure_loop(catalog, found \cup fresh, Tail(queue) \o sorted(fresh))
         ELSE closure_loop(catalog, found, Tail(queue))

\* lines 40-64 on the document doc: the visited set of a whole run
found_in(doc) == closure_loop(schemas_of(doc), chat_schemas, sorted(chat_schemas))

\* lines 66-72 on the document doc: the keys of the returned mapping
extracted_from(doc) == found_in(doc) \cap Keys(schemas_of(doc))

\* a printed line: its fixed text, and the count or the name formatted into it
Printed(text, count, name) == [text |-> text, count |-> count, name |-> name]

\* main(): print the sorted names and save them, one per line
MainSave ==
    /\ pc = "extracted"
    /\ LET names == sorted(DOMAIN extracted_schemas) IN
       /\ stdout' = <<Printed("Found related schemas", Len(names), "")>>
                     \o [i \in 1..Len(names) |-> Printed("-", 0, names[i])]
                     \o <<Printed("Schema list saved", 0, "")>>
       /\ file' = [i \in 1..Len(names) |-> <<names[i], "\n">>]
    /\ pc' = "done"
    /\ UNCHANGED <<spec, schemas, all_found_schemas, to_process, extracted_schemas, tvars, lvars, svars, cvars>>

\* lines 37-52: the state when the while loop is first reached
InitExtract ==
    /\ pc = "loop"
    /\ schemas = components_schemas
    /\ all_found_schemas = chat_schemas
    /\ to_process \in Orders(chat_schemas)
    /\ extracted_schemas = <<>>
    /\ stdout = <<>>

-----------------------------------------------------------------------------
(* create_trimmed_spec.py                                                   *)

\* the str a dict key or a name is, as a document node
StrOf(key) == IF key = "/chat/completions"
              THEN Str(<<"/", "chat", "/", "completions">>)
              ELSE Str(<<key>>)

\* `key in c`, for a c that supports it: a dict has the key, a list has an equal element
Contains(c, key) ==
    CASE c.t = "dict" -> key \in Keys(c)
      [] c.t = "list" -> \E i \in 1..Len(c.kv) : c.kv[i][2] = StrOf(key)

Whitespace == {" ", "\n", "\t"}

\* line.strip(): the line without its leading and trailing whitespace
RECURSIVE strip(_)
strip(line) ==
    IF line = <<>> THEN <<>>
    ELSE IF line[1] \in Whitespace THEN strip(Tail(line))
    ELSE IF line[Len(line)] \in Whitespace THEN strip(SubSeq(line, 1, Len(line) - 1))
    ELSE line

\* (variant) line 13 without `if line.strip()`: a blank line gives the name ''
line_names_unfiltered(f) ==
    {IF strip(f[i]) = <<>> THEN "" ELSE strip(f[i])[1] : i \in 1..Len(f)}

\* line 13 on the lines f: set(line.strip() for line in f if line.strip())
line_names(f) == {strip(f[i])[1] : i \in {j \in 1..Len(f) : strip(f[j]) # <<>>}}

\* load_chat_completion_schemas(): the names of the lines of the side file
load_chat_completion_schemas == line_names(file)

Title == Str(<<"OpenAI Chat Completions API (Trimmed)">>)
Description ==
    Str(<<"Trimmed OpenAI API specification containing only chat completions endpoint and related components">>)

\* (variant) lines 24-38 as a copy of the original with the info, paths and
\* components entries replaced: the original's other sections stay
skeleton_keep_sections ==
    IF Get(spec, "info", EmptyDict).t # "dict" \/ Get(spec, "components", EmptyDict).t # "dict"
    THEN [exc |-> "AttributeError", doc |-> EmptyDict]
    ELSE [exc |-> "none",
          doc |-> Dict(<<
            <<"openapi", Get(spec, "openapi", Other)>>,
            <<"info", Dict(<< <<"title", Title>>,
                              <<"description", Description>>,
                              <<"version", Get(Get(spec, "info", EmptyDict), "version",
                                               Str(<<"1.0.0">>))>> >>)>>,
            <<"servers", Get(spec, "servers", List(<<>>))>>,
            <<"security", Get(spec, "security", List(<<>>))>>,
            <<"paths", EmptyDict>>,
            <<"components", Dict(<<
                <<"schemas", EmptyDict>>,
                <<"securitySchemes", Get(Get(spec, "components", EmptyDict),
                                         "securitySchemes", EmptyDict)>> >>)>> >>
            \o SelectSeq(spec.kv, LAMBDA e :
                   e[1] \notin {"openapi", "info", "servers", "security", "paths", "components"}))]

\* (variant) line 29 as 'version': '1.0.0'
skeleton_default_version ==
    IF Get(spec, "info", EmptyDict).t # "dict" \/ Get(spec, "components", EmptyDict).t # "dict"
    THEN [exc |-> "AttributeError", doc |-> EmptyDict]
    ELSE [exc |-> "none",
          doc |-> Dict(<<
            <<"openapi", Get(spec, "openapi", Other)>>,
            <<"info", Dict(<< <<"title", Title>>,
                              <<"description", Description>>,
                              <<"version", Str(<<"1.0.0">>)>> >>)>>,
            <<"servers", Get(spec, "servers", List(<<>>))>>,
            <<"security", Get(spec, "security", List(<<>>))>>,
            <<"paths", EmptyDict>>,
            <<"components", Dict(<<
                <<"schemas", EmptyDict>>,
                <<"securitySchemes", Get(Get(spec, "components", EmptyDict),
                                         "securitySchemes", EmptyDict)>> >>)>> >>)]

\* lines 24-38: the dict literal; an .get on a section that is no dict raises
skeleton ==
    IF Get(spec, "info", EmptyDict).t # "dict" \/ Get(spec, "components", EmptyDict).t # "dict"
    THEN [exc |-> "AttributeError", doc |-> EmptyDict]
    ELSE [exc |-> "none",
          doc |-> Dict(<<
            <<"openapi", Get(spec, "openapi", Other)>>,
            <<"info", Dict(<< <<"title", Title>>,
                              <<"description", Description>>,
                              <<"version", Get(Get(spec, "info", EmptyDict), "version",
                                               Str(<<"1.0.0">>))>> >>)>>,
            <<"servers", Get(spec, "servers", List(<<>>))>>,
            <<"security", Get(spec, "security", List(<<>>))>>,
            <<"paths", EmptyDict>>,
            <<"components", Dict(<<
                <<"schemas", EmptyDict>>,
                <<"securitySchemes", Get(Get(spec, "components", EmptyDict),
                                         "securitySchemes", EmptyDict)>> >>)>> >>)]

\* trimmed_spec[section][key] = source[key] when `key in source`
\* (lines 42-43 and 48-49); `in` raises on a scalar, [key] on a list
copy_if_present(r, section, sub, source, key) ==
    IF r.exc # "none" THEN r
    ELSE IF source.t \notin {"dict", "list"} THEN [exc |-> "TypeError", doc |-> r.doc]
    ELSE IF ~Contains(source, key) THEN r
    ELSE IF source.t # "dict" THEN [exc |-> "TypeError", doc |-> r.doc]
    ELSE [exc |-> "none",
          doc |-> IF sub = ""
                  THEN SetItem(r.doc, section,
                               SetItem(Item(r.doc, section), key, Item(source, key)))
                  ELSE SetItem(r.doc, section,
                               SetItem(Item(r.doc, section), sub,
                                       SetItem(Item(Item(r.doc, section), sub), key,
                                               Item(source, key))))]

\* (variant) lines 41-43 as trimmed_spec['paths'] = original_paths
copy_all_paths(r) ==
    IF r.exc # "none" THEN r
    ELSE [exc |-> "none", doc |-> SetItem(r.doc, "paths", Get(spec, "paths", EmptyDict))]

\* (variant) lines 42-43 without the test `in original_paths`
copy_paths_unchecked(r) ==
    IF r.exc # "none" THEN r
    ELSE IF Get(spec, "paths", EmptyDict).t # "dict" THEN [exc |-> "TypeError", doc |-> r.doc]
    ELSE IF "/chat/completions" \notin Keys(Get(spec, "paths", EmptyDict))
    THEN [exc |-> "KeyError", doc |-> r.doc]
    ELSE copy_if_present(r, "paths", "", Get(spec, "paths", EmptyDict), "/chat/completions")

\* lines 40-43
copy_paths(r) ==
    copy_if_present(r, "paths", "", Get(spec, "paths", EmptyDict), "/chat/completions")

\* (variant) lines 47-49 leaving the loop after the first name
copy_first_schema(r, order) ==
    IF order = <<>> THEN r
    ELSE copy_if_present(r, "components", "schemas", components_schemas, Head(order))

\* lines 45-49, with the names of chat_schemas iterated in `order`
RECURSIVE copy_schemas(_, _)
copy_schemas(r, order) ==
    IF order = <<>> \/ r.exc # "none" THEN r
    ELSE copy_schemas(
             copy_if_present(r, "components", "schemas",
                             components_schemas,
                             Head(order)),
             Tail(order))

\* lines 47-49 as a function: the schemas section built from the dict
\* source for the names iterated in `order`, starting from the dict acc
RECURSIVE project_schemas(_, _, _)
project_schemas(source, acc, order) ==
    IF order = <<>> THEN acc
    ELSE project_schemas(source,
                         IF Head(order) \in Keys(source)
                         THEN SetItem(acc, Head(order), Item(source, Head(order)))
                         ELSE acc,
                         Tail(order))

\* a dict or a list: an object that an assignment stores by reference and
\* that can be changed in place
Mutable(node) == node.t \in {"dict", "list"}

\* the key paths of the built document doc whose value is an object of the
\* original: what spec.get(key) and source[key] return is stored as it is
\* (lines 31, 32, 36, 43, 49); the dicts of the literal (lines 24, 26, 33,
\* 34, 35) and the defaults of .get are new objects
stored_by_reference(doc) ==
    { <<k>> : k \in {k \in {"servers", "security"} : k \in Keys(spec) /\ Mutable(Item(spec, k))} }
    \cup (IF Mutable(Get(Get(spec, "components", EmptyDict), "securitySchemes", Other))
          THEN {<<"components", "securitySchemes">>} ELSE {})
    \cup { <<"paths", k>> : k \in {k \in Keys(Item(doc, "paths")) :
                                      Mutable(Item(Item(doc, "paths"), k))} }
    \cup { <<"components", "schemas", n>> : n \in
              {n \in Keys(Item(Item(doc, "components"), "schemas")) :
                  Mutable(Item(Item(Item(doc, "components"), "schemas"), n))} }

\* lines 17-21: read the document and the name list
Load ==
    /\ pc = "done"
    /\ tpc = "start"
    /\ loaded' = load_chat_completion_schemas
    /\ tpc' = "loaded"
    /\ UNCHANGED <<spec, xvars, file, trimmed_spec, exc, out, shared, lvars, svars, cvars>>

\* lines 23-49: build the trimmed document, or raise
Project ==
    /\ tpc = "loaded"
    /\ \E order \in Orders(loaded) :
         LET r == copy_schemas(copy_paths(skeleton), order) IN
         IF r.exc = "none"
         THEN /\ trimmed_spec' = r.doc
              /\ shared' = stored_by_reference(r.doc)
              /\ exc' = "none"
              /\ tpc' = "built"
         ELSE /\ trimmed_spec' = trimmed_spec
              /\ shared' = shared
              /\ exc' = r.exc
              /\ tpc' = "raised"
    /\ UNCHANGED <<spec, xvars, file, loaded, out, lvars, svars, cvars>>

\* lines 51-57: dump the document and print the two counts
Dump ==
    /\ tpc = "built"
    /\ out' = <<Len(Item(trimmed_spec, "paths").kv),
                Len(Item(Item(trimmed_spec, "components"), "schemas").kv)>>
    /\ tpc' = "done"
    /\ UNCHANGED <<spec, xvars, file, loaded, trimmed_spec, exc, shared, lvars, svars, cvars>>

InitTrim ==
    /\ tpc = "start"
    /\ loaded = {}
    /\ trimmed_spec = EmptyDict
    /\ exc = "none"
    /\ out = <<>>
    /\ shared = {}

-----------------------------------------------------------------------------
(* scripts/update_context_symlinks.py                                       *)
(* A name (of a crate, a file, a symlink) is the sequence of its atoms,     *)
(* where an atom is "/", "_", "-" or a maximal chunk without them; a path   *)
(* is the sequence of its components, each a name.                          *)

CLAUDE_md  == <<"CLAUDE.md">>
PACKAGE_md == <<"PACKAGE.md">>

\* s.replace(a, b) for atoms a and b
replace(s, a, b) == [i \in 1..Len(s) |-> IF s[i] = a THEN b ELSE s[i]]

\* Path(crate_path).name : what follows the last "/"
path_name(crate_path) ==
    LET slashes == {i \in 1..Len(crate_path) : crate_path[i] = "/"}
        last    == IF slashes = {} THEN 0 ELSE CHOOSE i \in slashes : \A j \in slashes : j <= i
    IN  SubSeq(crate_path, last + 1, Len(crate_path))

normalize_crate_name(crate_path) ==
    IF Len(crate_path) >= 2 /\ crate_path[1] = "bodhi" /\ crate_path[2] = "/"
    THEN replace(crate_path, "/", "-")
    ELSE replace(path_name(crate_path), "_", "-")

\* the places at which "/test_utils" occurs in a name
test_utils_at(crate_identifier) ==
    {i \in 1..Len(crate_identifier) - 3 :
        SubSeq(crate_identifier, i, i + 3) = <<"/", "test", "_", "utils">>}

generate_symlink_name(file_type, crate_identifier) ==
    LET normalized_name ==
            IF test_utils_at(crate_identifier) # {}
            THEN LET first == CHOOSE i \in test_utils_at(crate_identifier) :
                                  \A j \in test_utils_at(crate_identifier) : i <= j
                 IN  normalize_crate_name(SubSeq(crate_identifier, 1, first - 1))
                         \o <<"-", "test", "-", "utils">>
            ELSE normalize_crate_name(crate_identifier)
    IN  CASE file_type = "claude"  -> normalized_name \o <<".md">>
          [] file_type = "package" -> normalized_name \o <<"-", "package", ".md">>
          [] OTHER                 -> <<"ValueError">>

\* path.exists() in the tree of documentation files: the path is a file of
\* the tree or a directory above one
path_exists(tree, path) ==
    \E q \in tree : Len(q) >= Len(path) /\ SubSeq(q, 1, Len(path)) = path

\* files.append((file_type, relative_path, crate_identifier)) when the
\* CLAUDE.md or PACKAGE.md of the directory dir exists
doc_file(tree, file_type, dir, crate_identifier) ==
    LET path == dir \o << IF file_type = "claude" THEN CLAUDE_md ELSE PACKAGE_md >>
    IN  IF path_exists(tree, path)
        THEN << [file_type |-> file_type, relative_path |-> path,
                 crate_identifier |-> crate_identifier] >>
        ELSE <<>>

\* both files of one directory (CLAUDE.md first), when the directory exists
doc_files_in(tree, dir, crate_identifier) ==
    IF path_exists(tree, dir)
    THEN doc_file(tree, "claude", dir, crate_identifier)
         \o doc_file(tree, "package", dir, crate_identifier)
    ELSE <<>>

\* lines 52-86: the files of one directory of crates/
crate_doc_files(tree, crate_name) ==
    LET item == << <<"crates">>, crate_name >> IN
    doc_files_in(tree, item, crate_name)
    \o doc_files_in(tree, item \o << <<"src">>, <<"test", "_", "utils">> >>,
                    crate_name \o <<"/", "test", "_", "utils">>)
    \o (IF crate_name = <<"bodhi">>
        THEN doc_files_in(tree, item \o << <<"src">> >>, <<"bodhi", "/", "src">>)
             \o doc_files_in(tree, item \o << <<"src", "-", "tauri">> >>,
                             <<"bodhi", "/", "src", "-", "tauri">>)
        ELSE <<>>)

\* the directories of crates/
crate_dirs(tree) == {q[2] : q \in {q \in tree : Len(q) >= 3 /\ q[1] = <<"crates">>}}

\* lines 51-86, with crates_dir.iterdir() yielding the directories in `order`
RECURSIVE crates_doc_files(_, _)
crates_doc_files(tree, order) ==
    IF order = <<>> THEN <<>>
    ELSE crate_doc_files(tree, Head(order)) \o crates_doc_files(tree, Tail(order))

find_documentation_files(tree, order) ==
    crates_doc_files(tree, order)
    \o doc_files_in(tree, << <<"xtask">> >>, <<"xtask">>)
    \o doc_files_in(tree, << <<"devops">> >>, <<"devops">>)
    \o doc_files_in(tree, << <<".github">> >>, <<"github">>)
    \o doc_file(tree, "claude", <<>>, <<"root">>)
    \o doc_file(tree, "package", <<>>, <<"root">>)

\* the directories of crates/ in one of the orders iterdir() can yield
sorted_dirs(tree) == CHOOSE order \in Orders(crate_dirs(tree)) : TRUE

\* the entry of the context directory under a name: <<>> when there is none
entry_at(name) ==
    IF \E e \in context_dir.entries : e.name = name
    THEN << CHOOSE e \in context_dir.entries : e.name = name >>
    ELSE <<>>

\* is_symlink_correct(symlink_path, target_path)
is_symlink_correct(name, target_path) ==
    /\ entry_at(name) # <<>>
    /\ entry_at(name)[1].kind = "link"
    /\ entry_at(name)[1].target = target_path

\* the line an action is: its mark and the name of the symlink
Action(mark, name) == [mark |-> mark, name |-> name]

\* f"../../{relative_path}"
target_of(relative_path) == << <<"..">>, <<"..">> >> \o relative_path

\* at most this many documentation files in the repository
MaxFiles == 3
\* at most this many runs of the script
MaxRuns == 2

\* lines 194-221: parse the command line, make the context directory,
\* find the documentation files
StartRun ==
    /\ spc = "idle"
    /\ Len(summaries) < MaxRuns
    /\ \E dry_run \in BOOLEAN, order \in Orders(crate_dirs(repo_tree)) :
          /\ args' = [dry_run |-> dry_run]
          /\ context_dir' = IF ~context_dir.exists /\ ~dry_run
                            THEN [exists |-> TRUE, entries |-> {}]
                            ELSE context_dir
          /\ doc_files' = find_documentation_files(repo_tree, order)
    /\ actions' = <<>>
    /\ spc' = "loop"
    /\ UNCHANGED <<spec, xvars, file, tvars, svars, cvars, repo_tree, summaries>>

\* lines 223-235: one iteration of the for loop, with the call of
\* create_or_update_symlink (lines 170-191); unlink() of a directory raises
LinkNext ==
    /\ spc = "loop"
    /\ doc_files # <<>>
    /\ LET f           == Head(doc_files)
           name        == generate_symlink_name(f.file_type, f.crate_identifier)
           target_path == target_of(f.relative_path)
           linked      == [exists  |-> context_dir.exists,
                           entries |-> {e \in context_dir.entries : e.name # name}
                                       \cup {[name |-> name, kind |-> "link",
                                              target |-> target_path]}]
       IN
       IF entry_at(name) # <<>>
       THEN IF is_symlink_correct(name, target_path)
            THEN /\ actions' = Append(actions, Action("already correct", name))
                 /\ doc_files' = Tail(doc_files)
                 /\ spc' = "loop"
                 /\ UNCHANGED context_dir
            ELSE IF ~args.dry_run /\ entry_at(name)[1].kind = "dir"
            THEN /\ spc' = "raised"
                 /\ UNCHANGED <<context_dir, doc_files, actions>>
            ELSE /\ context_dir' = IF args.dry_run THEN context_dir ELSE linked
                 /\ actions' = Append(actions, Action("updated", name))
                 /\ doc_files' = Tail(doc_files)
                 /\ spc' = "loop"
       ELSE /\ context_dir' = IF args.dry_run THEN context_dir ELSE linked
            /\ actions' = Append(actions, Action("created", name))
            /\ doc_files' = Tail(doc_files)
            /\ spc' = "loop"
    /\ UNCHANGED <<spec, xvars, file, tvars, svars, cvars, repo_tree, args, summaries>>

\* how many actions of the run carry the mark
Count(mark) == Cardinality({i \in 1..Len(actions) : actions[i].mark = mark})

\* lines 237-252: count the actions and print the summary
Summary ==
    /\ spc = "loop"
    /\ doc_files = <<>>
    /\ summaries' = Append(summaries,
                           [dry_run   |-> args.dry_run,
                            created   |-> Count("created"),
                            updated   |-> Count("updated"),
                            unchanged |-> Count("already correct"),
                            total     |-> Len(actions)])
    /\ spc' = "idle"
    /\ UNCHANGED <<spec, xvars, file, tvars, svars, cvars, repo_tree, context_dir, args, doc_files, actions>>

\* the script is not run
InitLinksOff ==
    /\ repo_tree = {}
    /\ context_dir = [exists |-> FALSE, entries |-> {}]
    /\ args = [dry_run |-> FALSE]
    /\ doc_files = <<>>
    /\ actions = <<>>
    /\ summaries = <<>>
    /\ spc = "off"

\* no caller of find_schema_references outside the closure loop
InitScanOff ==
    /\ arg_schema = Other
    /\ arg_visited = <<>>
    /\ ret_refs = <<>>

\* filter-cargo-toml.py is not run
InitCargoOff ==
    /\ lines = <<>>
    /\ idx = 0
    /\ filtered_lines = <<>>
    /\ in_members_section = FALSE
    /\ in_workspace_deps_section = FALSE
    /\ skip_line = FALSE
    /\ output_file = <<>>

-----------------------------------------------------------------------------
(* Spec: the two scripts run one after the other on one document.           *)

Init ==
    /\ spec \in Documents
    /\ InitExtract
    /\ file = <<>>
    /\ InitTrim
    /\ InitLinksOff
    /\ InitScanOff
    /\ InitCargoOff

Next == ProcessNext \/ ExtractFound \/ MainSave \/ Load \/ Project \/ Dump

Spec == Init /\ [][Next]_vars

\* extract_chat_schemas.py alone: main() from the load to the save
NextExtract == ProcessNext \/ ExtractFound \/ MainSave

SpecExtract == Init /\ [][NextExtract]_vars

\* extract_chat_schemas.py is one sequential run: once started it goes on
\* until main() returns
FairSpec == Spec /\ WF_vars(ProcessNext \/ ExtractFound \/ MainSave)

-----------------------------------------------------------------------------
(* SpecTrim: create_trimmed_spec.py alone, on any document and any name     *)
(* list found in the side file.                                             *)

\* at most this many lines in the side file
MaxLines == 3

SomeCatalog ==
    Catalog([n \in {"CreateChatCompletionRequest", "ChatCompletionTool", "CompletionUsage"} |->
                IF n = "CreateChatCompletionRequest"
                THEN OneOf("ChatCompletionTool", "CompletionUsage") ELSE Plain])

\* d without the entry of key
Without(d, key) == Dict(SelectSeq(d.kv, LAMBDA e : e[1] # key))

Components(catalog) ==
    Dict(<< <<"securitySchemes", SecuritySchemes>>, <<"schemas", catalog>> >>)

Tags       == List(<< Dict(<< <<"name", Str(<<"Chat">>)>> >>) >>)
Parameters == Dict(<< <<"limit", Dict(<< <<"in", Str(<<"query">>)>> >>)>> >>)

\* a document with sections and component kinds the trimmed one has no place for
Extended ==
    SetItem(SetItem(SetItem(Document(SomeCatalog), "tags", Tags),
                    "x-oaiMeta", Dict(<< <<"navigationGroups", List(<<>>)>> >>)),
            "components", SetItem(Components(SomeCatalog), "parameters", Parameters))

\* documents with sections missing, and with sections of another type
TrimDocuments ==
    LET full == Document(SomeCatalog) IN
    { full,
      Extended,
      Without(full, "paths"),
      SetItem(full, "paths", Without(Paths, "/chat/completions")),
      SetItem(full, "paths", Other),
      SetItem(full, "paths", List(<< StrOf("/chat/completions") >>)),
      SetItem(full, "paths", List(<< StrOf("/completions") >>)),
      Without(full, "info"),
      SetItem(full, "info", Without(Info, "version")),
      SetItem(full, "info", Other),
      Without(full, "components"),
      SetItem(full, "components", Dict(<< <<"securitySchemes", SecuritySchemes>> >>)),
      SetItem(full, "components", List(<<>>)),
      SetItem(full, "components", Components(Other)),
      SetItem(full, "components", Components(List(<< StrOf("CompletionUsage") >>))),
      Without(Without(Without(full, "openapi"), "servers"), "security") }

\* the lines a side file can hold
Lines ==
    { <<n, "\n">> : n \in {"CreateChatCompletionRequest", "ChatCompletionTool",
                            "CompletionUsage", "ChatCompletionList"} }
    \cup { <<"\n">>, <<" ", "CompletionUsage", " ", "\n">> }

Files == UNION { [1..k -> Lines] : k \in 0..MaxLines }

InitTrimOnly ==
    /\ spec \in TrimDocuments
    /\ file \in Files
    /\ pc = "done"
    /\ schemas = EmptyDict
    /\ all_found_schemas = chat_schemas
    /\ to_process = <<>>
    /\ extracted_schemas = <<>>
    /\ stdout = <<>>
    /\ InitTrim
    /\ InitLinksOff
    /\ InitScanOff
    /\ InitCargoOff

NextTrim == Load \/ Project \/ Dump

SpecTrim == InitTrimOnly /\ [][NextTrim]_vars

-----------------------------------------------------------------------------
(* SpecLinks: update_context_symlinks.py run up to MaxRuns times on one     *)
(* repository, from any state of the context directory.                     *)

\* documentation files a repository can hold
CandidateFiles ==
    { << <<"crates">>, <<"auth", "_", "middleware">>, CLAUDE_md >>,
      << <<"crates">>, <<"auth", "-", "middleware">>, CLAUDE_md >>,
      << <<"crates">>, <<"objs">>, <<"src">>, <<"test", "_", "utils">>, PACKAGE_md >>,
      << <<"crates">>, <<"bodhi">>, <<"src", "-", "tauri">>, CLAUDE_md >>,
      << <<"crates">>, <<"xtask">>, PACKAGE_md >>,
      << <<"xtask">>, PACKAGE_md >>,
      << <<".github">>, CLAUDE_md >>,
      << PACKAGE_md >> }

Trees == {tree \in SUBSET CandidateFiles : Cardinality(tree) <= MaxFiles}

\* the symlink names the files of a tree are given
names_of(tree) ==
    LET files == find_documentation_files(tree, sorted_dirs(tree))
    IN  {generate_symlink_name(files[i].file_type, files[i].crate_identifier) :
            i \in 1..Len(files)}

\* what can lie under a name before the first run: a regular file, a
\* directory, a symlink to a file of the tree or to some other place
entries_at(tree, name) ==
    { [name |-> name, kind |-> "file", target |-> <<>>],
      [name |-> name, kind |-> "dir",  target |-> <<>>],
      [name |-> name, kind |-> "link", target |-> target_of(<< <<"docs">>, <<"old.md">> >>)] }
    \cup { [name |-> name, kind |-> "link", target |-> target_of(q)] : q \in tree }

\* the context directory before the first run: missing, empty, or holding
\* one entry under a name the script will use, or a symlink of another name
ContextDirs(tree) ==
    { [exists |-> FALSE, entries |-> {}], [exists |-> TRUE, entries |-> {}],
      [exists |-> TRUE,
       entries |-> {[name |-> <<"README.md">>, kind |-> "link",
                     target |-> target_of(<< <<"README.md">> >>)]}] }
    \cup { [exists |-> TRUE, entries |-> {e}] :
              e \in UNION {entries_at(tree, name) : name \in names_of(tree)} }

InitLinks ==
    /\ repo_tree \in Trees
    /\ context_dir \in ContextDirs(repo_tree)
    /\ args = [dry_run |-> FALSE]
    /\ doc_files = <<>>
    /\ actions = <<>>
    /\ summaries = <<>>
    /\ spc = "idle"
    /\ spec = EmptyDict
    /\ file = <<>>
    /\ pc = "done"
    /\ schemas = EmptyDict
    /\ all_found_schemas = chat_schemas
    /\ to_process = <<>>
    /\ extracted_schemas = <<>>
    /\ stdout = <<>>
    /\ tpc = "done"
    /\ loaded = {}
    /\ trimmed_spec = EmptyDict
    /\ exc = "none"
    /\ out = <<>>
    /\ shared = {}
    /\ InitScanOff
    /\ InitCargoOff

NextLinks == StartRun \/ LinkNext \/ Summary

SpecLinks == InitLinks /\ [][NextLinks]_vars

-----------------------------------------------------------------------------
(* The reference graph of a catalog, stated without the scan's bookkeeping. *)

\* the part of a str after its last "/" (the whole str when it has none)
LastSegment(s) == IF s = <<>> \/ s[Len(s)] = "/" THEN "" ELSE s[Len(s)]

\* the names of all str values stored under a '$ref' key, at any depth
RECURSIVE AllRefs(_)
AllRefs(node) ==
    UNION { (IF node.t = "dict" /\ node.kv[i][1] = "$ref" /\ node.kv[i][2].t = "str"
             THEN {LastSegment(node.kv[i][2].s)} ELSE {})
            \cup AllRefs(node.kv[i][2]) : i \in 1..Len(node.kv) }

\* whether some '$ref' key of the subtree holds a value that is no str
RECURSIVE HasNonStringRef(_)
HasNonStringRef(node) ==
    \E i \in 1..Len(node.kv) :
        \/ node.t = "dict" /\ node.kv[i][1] = "$ref" /\ node.kv[i][2].t # "str"
        \/ HasNonStringRef(node.kv[i][2])

\* the nodes of a document: the node itself and the nodes of its values
RECURSIVE Nodes(_)
Nodes(node) == {node} \cup UNION { Nodes(node.kv[i][2]) : i \in 1..Len(node.kv) }

Defined == Keys(schemas)

\* the names the definitions of the names in S refer to
Targets(S) == UNION { AllRefs(Item(schemas, m)) : m \in S \cap Defined }

\* the names reachable from S along '$ref' edges (S included)
RECURSIVE Reachable(_)
Reachable(S) == IF Targets(S) \subseteq S THEN S ELSE Reachable(S \cup Targets(S))

\* the names lying on a reference cycle
OnCycle == { n \in Defined : n \in Reachable(Targets({n})) }

LoopEnded == pc # "loop"

-----------------------------------------------------------------------------
(* SpecScan: find_schema_references called by a caller of its own, up to    *)
(* MaxCalls times on one node, with a visited set or without one.           *)

\* at most this many calls on the node
MaxCalls == 2

\* reference strings: the usual pointer, another file's, a bare name, one
\* that ends in a slash, one that starts with one, and the empty str
RefStrings ==
    { RefTo("ChatCompletionTool").s,
      <<"common.yml#", "/", "ChatCompletionTool">>,
      <<"ChatCompletionTool">>,
      <<"#", "/", "definitions", "/", "CompletionUsage">>,
      <<"CompletionUsage", "/">>,
      <<"/", "CompletionUsage">>,
      <<>> }

\* a definition holding two references, in a list
AllOf(s, t) == Dict(<< <<"allOf", List(<< Dict(<< <<"$ref", Str(s)>> >>),
                                         Dict(<< <<"$ref", Str(t)>> >>) >>)>> >>)

\* the nodes a caller can pass: the definitions of the catalogs and every
\* node inside them, and definitions with the reference strings
ScanNodes ==
    UNION { Nodes(d) : d \in Definitions }
    \cup { Dict(<< <<"$ref", Str(s)>> >>) : s \in RefStrings }
    \cup { AllOf(s, t) : s \in {RefTo("ChatCompletionTool").s}, t \in RefStrings }

\* the visited sets a caller can pass
VisitedSets == SUBSET {"ChatCompletionTool", "CompletionUsage", "CreateChatCompletionRequest"}

\* one call find_schema_references(arg_schema) or
\* find_schema_references(arg_schema, visited): without a set the call makes
\* its own (lines 13-14), with one it works on the caller's object
CallScan ==
    /\ Len(ret_refs) < MaxCalls
    /\ \E r \in {find_schema_references(arg_schema,
                                        IF arg_visited = <<>> THEN {} ELSE arg_visited[1])} :
          /\ ret_refs' = Append(ret_refs, r.refs)
          /\ arg_visited' = IF arg_visited = <<>> THEN <<>> ELSE <<r.visited>>
    /\ UNCHANGED <<arg_schema, spec, xvars, file, tvars, lvars, cvars>>

InitScan ==
    /\ arg_schema \in ScanNodes
    /\ arg_visited \in {<<>>} \cup {<<v>> : v \in VisitedSets}
    /\ ret_refs = <<>>
    /\ spec = EmptyDict
    /\ file = <<>>
    /\ pc = "done"
    /\ schemas = EmptyDict
    /\ all_found_schemas = chat_schemas
    /\ to_process = <<>>
    /\ extracted_schemas = <<>>
    /\ stdout = <<>>
    /\ tpc = "done"
    /\ loaded = {}
    /\ trimmed_spec = EmptyDict
    /\ exc = "none"
    /\ out = <<>>
    /\ shared = {}
    /\ InitLinksOff
    /\ InitCargoOff

NextScan == CallScan

SpecScan == InitScan /\ [][NextScan]_vars

-----------------------------------------------------------------------------
(* scripts/filter-cargo-toml.py                                             *)
(* A line is the sequence of its atoms: a whitespace atom, a bracket, a     *)
(* quote, or a chunk of text chosen so that every prefix and substring the  *)
(* script tests for is a run of whole atoms.                                *)

\* s.startswith(prefix)
startswith(s, prefix) == Len(s) >= Len(prefix) /\ SubSeq(s, 1, Len(prefix)) = prefix

\* sub in s
occurs_in(sub, s) == \E i \in 1..(Len(s) - Len(sub) + 1) : SubSeq(s, i, i + Len(sub) - 1) = sub

workspace_header      == <<"[", "workspace", "]">>
workspace_deps_header == <<"[", "workspace", ".dependencies", "]">>
members_open          == <<"members = ", "[">>
ci_optims_member      == <<"\"", "crates/", "ci_optims", "\"">>
local_path            == <<"path = ", "\"", "crates/">>

\* "\n".join(ls)
RECURSIVE join(_)
join(ls) == IF ls = <<>> THEN <<>>
            ELSE IF Len(ls) = 1 THEN ls[1]
            ELSE ls[1] \o <<"\n">> \o join(Tail(ls))

\* lines 31-41: the two section flags after the line has been looked at
section_flags(line, members, deps) ==
    LET stripped == strip(line) IN
    IF startswith(stripped, workspace_header)
    THEN [members |-> FALSE, deps |-> FALSE]
    ELSE IF stripped = members_open
    THEN [members |-> TRUE, deps |-> deps]
    ELSE IF startswith(stripped, workspace_deps_header)
    THEN [members |-> FALSE, deps |-> TRUE]
    ELSE IF startswith(stripped, <<"[">>) /\ ~startswith(stripped, <<"[", "workspace">>)
    THEN [members |-> FALSE, deps |-> FALSE]
    ELSE [members |-> members, deps |-> deps]

\* lines 44-71: whether the line is appended, and skip_line afterwards
keep_line(line, members, deps, skip) ==
    LET stripped == strip(line) IN
    IF members
    THEN [keep |-> \/ occurs_in(ci_optims_member, line)
                   \/ stripped \in {<<"]">>, members_open}
                   \/ ~startswith(stripped, <<"\"">>),
          skip |-> skip]
    ELSE IF deps
    THEN IF occurs_in(local_path, line) THEN [keep |-> FALSE, skip |-> TRUE]
         ELSE IF skip /\ stripped = <<>> THEN [keep |-> FALSE, skip |-> FALSE]
         ELSE [keep |-> TRUE, skip |-> FALSE]
    ELSE [keep |-> TRUE, skip |-> skip]

\* one iteration of the for loop (lines 29-71)
FilterLine ==
    /\ idx \in 1..Len(lines)
    /\ \E flags \in {section_flags(lines[idx], in_members_section, in_workspace_deps_section)} :
       \E k \in {keep_line(lines[idx], flags.members, flags.deps, skip_line)} :
          /\ in_members_section' = flags.members
          /\ in_workspace_deps_section' = flags.deps
          /\ skip_line' = k.skip
          /\ filtered_lines' = IF k.keep THEN Append(filtered_lines, lines[idx])
                               ELSE filtered_lines
    /\ idx' = idx + 1
    /\ UNCHANGED <<lines, output_file, spec, xvars, file, tvars, lvars, svars>>

\* lines 74-75: write the kept lines, joined by newlines
WriteOutput ==
    /\ idx = Len(lines) + 1
    /\ output_file = <<>>
    /\ output_file' = << join(filtered_lines) >>
    /\ UNCHANGED <<lines, idx, filtered_lines, in_members_section,
                   in_workspace_deps_section, skip_line,
                   spec, xvars, file, tvars, lvars, svars>>

\* at most this many lines in the input Cargo.toml
MaxToml == 4

\* lines a Cargo.toml can hold
CargoLines ==
    { workspace_header,
      members_open,
      <<" ", "\"", "crates/", "ci_optims", "\"", ",">>,
      <<" ", "\"", "crates/", "objs", "\"", ",">>,
      <<"]">>,
      workspace_deps_header,
      <<"objs = { ", "path = ", "\"", "crates/", "objs", "\"", " }">>,
      <<"serde = ", "\"", "1", "\"">>,
      <<>>,
      <<"[", "workspace", ".package", "]">>,
      <<"[", "profile.release", "]">> }

\* lines 20-27: content.split("\n") has at least one line
InitCargo ==
    /\ lines \in UNION { [1..k -> CargoLines] : k \in 1..MaxToml }
    /\ idx = 1
    /\ filtered_lines = <<>>
    /\ in_members_section = FALSE
    /\ in_workspace_deps_section = FALSE
    /\ skip_line = FALSE
    /\ output_file = <<>>
    /\ spec = EmptyDict
    /\ file = <<>>
    /\ pc = "done"
    /\ schemas = EmptyDict
    /\ all_found_schemas = chat_schemas
    /\ to_process = <<>>
    /\ extracted_schemas = <<>>
    /\ stdout = <<>>
    /\ tpc = "done"
    /\ loaded = {}
    /\ trimmed_spec = EmptyDict
    /\ exc = "none"
    /\ out = <<>>
    /\ shared = {}
    /\ InitLinksOff
    /\ InitScanOff

NextCargo == FilterLine \/ WriteOutput

SpecCargo == InitCargo /\ [][NextCargo]_vars

-----------------------------------------------------------------------------
(* Closure properties (Spec).                                               *)

C2_ClosureMinimal ==
    \A n \in all_found_schemas :
        \/ n \in chat_schemas
        \/ n \in Targets(all_found_schemas)

\* a state of the loop in which a name that is no root has been added
C2_Witness ==
    /\ pc = "loop"
    /\ to_process # <<>>
    /\ all_found_schemas \ chat_schemas # {}
    /\ Defined \ all_found_schemas # {}

\* how many lines of the side file hold the name n
Occurrences(n) == Cardinality({i \in 1..Len(file) : file[i] = <<n, "\n">>})

\* C3 (FairSpec): the closure loop ends and main() returns, and every name on
\* a reference cycle reachable from the roots is in the result exactly once.
C3_TerminatesOnCycles ==
    <>( /\ pc = "done"
        /\ \A n \in OnCycle \cap Reachable(chat_schemas) :
              n \in DOMAIN extracted_schemas /\ Occurrences(n) = 1 )

\* a finished run over a catalog whose three definitions form one cycle
\* through a root
C3_Witness ==
    /\ pc = "done"
    /\ \E a \in chat_schemas, b, c \in OtherNames :
          /\ b # c
          /\ b \in Targets({a}) /\ c \in Targets({b}) /\ a \in Targets({c})
          /\ {a, b, c} \subseteq DOMAIN extracted_schemas

\* the names referred to by the definitions the closure has scanned
Discovered == Targets(all_found_schemas)

C6_NonStringRefFails ==
    ~( /\ LoopEnded
       /\ \E n \in all_found_schemas \cap Defined : HasNonStringRef(Item(schemas, n)) )

AbsentRoots == chat_schemas \ Defined

Built == tpc \in {"built", "done"}
TrimmedSchemas == Item(Item(trimmed_spec, "components"), "schemas")
TrimmedPaths == Item(trimmed_spec, "paths")

\* C7: with a root that has no entry in the catalog, the closure loop can
\* always go on and neither script raises, every root that has an entry is
\* expanded in full, and the absent root is no key of the extracted mapping
\* nor of the trimmed document's schemas.
C7_DanglingSafeRoots ==
    AbsentRoots # {} =>
        /\ pc = "loop" => ENABLED (ProcessNext \/ ExtractFound)
        /\ tpc # "raised"
        /\ LoopEnded =>
              /\ Reachable(chat_schemas \cap Defined) \cap Defined \subseteq DOMAIN extracted_schemas
              /\ AbsentRoots \cap DOMAIN extracted_schemas = {}
        /\ Built => AbsentRoots \cap Keys(TrimmedSchemas) = {}

\* both scripts have run on a catalog that lacks a root, and another root's
\* references were followed to a name that is no root
C7_Witness ==
    /\ tpc = "done"
    /\ AbsentRoots # {}
    /\ Keys(TrimmedSchemas) \ chat_schemas # {}
    /\ Keys(TrimmedSchemas) \cap chat_schemas # {}

\* C8: when both scripts have run, every root and every discovered name
\* without an entry in the catalog has been reported in the printed summary.
C8_DanglingReported ==
    tpc = "done" =>
        \A n \in (chat_schemas \cup Discovered) \ Defined :
            \E i \in 1..Len(stdout) : stdout[i].name = n

-----------------------------------------------------------------------------
(* Projection properties (SpecTrim).                                        *)

\* the names of the original's schema-definitions section
OriginalSchemaNames ==
    IF components_schemas.t = "dict" THEN Keys(components_schemas) ELSE {}

original_paths == Get(spec, "paths", EmptyDict)

\* C4: the schemas of the trimmed document are exactly the loaded names that
\* the original defines, each with the original's definition.
C4_ProjectionExact ==
    Built =>
        /\ Keys(TrimmedSchemas) = loaded \cap OriginalSchemaNames
        /\ \A n \in Keys(TrimmedSchemas) :
              Item(TrimmedSchemas, n) = Item(components_schemas, n)

\* a projection that kept two names, dropped a name the original lacks and
\* left out a schema of the original
C4_Witness ==
    /\ Built
    /\ Cardinality(Keys(TrimmedSchemas)) >= 2
    /\ loaded \ OriginalSchemaNames # {}
    /\ OriginalSchemaNames \ loaded # {}

\* C9: the schemas of the trimmed document are a sub-mapping of the
\* original's schemas, and its paths are a sub-mapping of the original's
\* paths with no key but '/chat/completions'.
C9_SubsetOfOriginal ==
    Built =>
        /\ \A n \in Keys(TrimmedSchemas) :
              /\ n \in OriginalSchemaNames
              /\ Item(TrimmedSchemas, n) = Item(components_schemas, n)
        /\ \A k \in Keys(TrimmedPaths) :
              /\ k = "/chat/completions"
              /\ original_paths.t = "dict" /\ k \in Keys(original_paths)
              /\ Item(TrimmedPaths, k) = Item(original_paths, k)

\* a projection of a document with a second path, which kept the one path
\* and a schema
C9_Witness ==
    /\ Built
    /\ original_paths.t = "dict" /\ "/completions" \in Keys(original_paths)
    /\ Keys(TrimmedPaths) = {"/chat/completions"}
    /\ Keys(TrimmedSchemas) # {}

\* the sections other than paths are dicts or missing
OtherSectionsAreDicts ==
    /\ Get(spec, "info", EmptyDict).t = "dict"
    /\ Get(spec, "components", EmptyDict).t = "dict"
    /\ components_schemas.t = "dict"

\* C10: '/chat/completions' of the original's paths is in the result with
\* the same subtree; when the original's paths lack it, or the original has
\* no paths, the run does not raise and the result's paths have no such key.
C10_PathProjection ==
    /\ Built /\ original_paths.t = "dict" /\ "/chat/completions" \in Keys(original_paths) =>
          /\ "/chat/completions" \in Keys(TrimmedPaths)
          /\ Item(TrimmedPaths, "/chat/completions") = Item(original_paths, "/chat/completions")
    /\ (/\ tpc \notin {"start", "loaded"}
        /\ original_paths.t = "dict" /\ "/chat/completions" \notin Keys(original_paths)
        /\ OtherSectionsAreDicts) =>
          /\ tpc # "raised"
          /\ "/chat/completions" \notin Keys(TrimmedPaths)

\* a finished projection of a document that has no paths section
C10_Witness ==
    /\ tpc = "done"
    /\ "paths" \notin Keys(spec)
    /\ TrimmedPaths = EmptyDict
    /\ out[1] = 0

-----------------------------------------------------------------------------
(* Properties of a second run, of the scan and of the work list (Spec).     *)

\* the elements of a sequence
Range(q) == {q[i] : i \in 1..Len(q)}

\* the schemas section a second projection builds: create_trimmed_spec run
\* on the trimmed document with the names `names` of a second extraction
Reprojected(names) ==
    project_schemas(schemas_of(trimmed_spec), EmptyDict, sorted(names))

\* C11: the closure computed on the trimmed document with the same roots is
\* the first closure restricted to the names of the trimmed schemas section,
\* as a visited set and as a returned mapping, and the projection of the
\* trimmed document with it has the same schemas as the trimmed document.
C11_ProjectionIdempotent ==
    Built =>
        \E found \in {found_in(trimmed_spec)} :
        \E names \in {found \cap Keys(TrimmedSchemas)} :
        \E again \in {Reprojected(names)} :
            /\ names = all_found_schemas \cap Keys(TrimmedSchemas)
            /\ names = extracted_from(trimmed_spec)
            /\ names = DOMAIN extracted_schemas \cap Keys(TrimmedSchemas)
            /\ Keys(again) = Keys(TrimmedSchemas)
            /\ \A n \in Keys(TrimmedSchemas) : Item(again, n) = Item(TrimmedSchemas, n)

\* a trimmed document that holds a root and a name found through a
\* reference, built from a catalog with a third definition that was left out
C11_Witness ==
    /\ Built
    /\ Keys(TrimmedSchemas) \cap chat_schemas # {}
    /\ Keys(TrimmedSchemas) \ chat_schemas # {}
    /\ Defined \ Keys(TrimmedSchemas) # {}

\* C12: the final closure set is a function of the catalog and the roots
\* alone: whatever the order of the roots in the queue and the order in
\* which the references of a scan are taken, it is the roots together with
\* the defined names reachable from them.
C12_ClosureDeterministic ==
    LoopEnded => all_found_schemas = chat_schemas \cup (Reachable(chat_schemas) \cap Defined)

\* a finished closure in which one scan found two new names at once, so that
\* they could be queued in either order
C12_Witness ==
    /\ LoopEnded
    /\ \E r \in chat_schemas \cap Defined :
          /\ Cardinality((AllRefs(Item(schemas, r)) \cap Defined) \ chat_schemas) >= 2
          /\ AllRefs(Item(schemas, r)) \subseteq all_found_schemas

\* C13: for the definition the loop scans next and every node inside it
\* (dict, list or scalar), the scan called without a visited set returns
\* exactly the last segments of the str values under a '$ref' key at any
\* depth of dicts and lists.
C13_ScanComplete ==
    pc = "loop" /\ to_process # <<>> =>
        \A node \in Nodes(Get(schemas, Head(to_process), Other)) :
            find_schema_references(node, {}).refs = AllRefs(node)

\* the loop has scanned a root whose references sit in a list and in a list
\* of lists, one of them twice, and has found both names
C13_Witness ==
    /\ pc = "loop"
    /\ \E r \in (chat_schemas \cap Defined) \ Range(to_process) :
          /\ Item(schemas, r) = OneOf("ChatCompletionTool", "CompletionUsage")
          /\ {"ChatCompletionTool", "CompletionUsage"} \subseteq all_found_schemas \cap Defined

\* the names a step has put at the end of the work queue
Queued == IF to_process' = to_process THEN <<>>
          ELSE SubSeq(to_process', Len(to_process), Len(to_process'))

\* C20: the visited set and the work queue start as the root names; every
\* name of the work queue is in the visited set; and a step puts a name in
\* the visited set exactly when it puts it at the end of the work queue,
\* which it does only for names that were not in the visited set.
C20_WorklistInvariant ==
    /\ all_found_schemas = chat_schemas /\ Range(to_process) = chat_schemas
    /\ [](Range(to_process) \subseteq all_found_schemas)
    /\ [][ /\ all_found_schemas \subseteq all_found_schemas'
           /\ Range(Queued) = all_found_schemas' \ all_found_schemas
           /\ Len(Queued) = Cardinality(Range(Queued)) ]_vars

\* a state of the loop whose queue holds a name found through a reference
\* behind a root that is still to be scanned
C20_Witness ==
    /\ pc = "loop"
    /\ Len(to_process) >= 2
    /\ to_process[1] \in chat_schemas
    /\ to_process[Len(to_process)] \notin chat_schemas

-----------------------------------------------------------------------------
(* Content, metadata, totality and order of the projection (SpecTrim).      *)

TrimmedInfo       == Item(trimmed_spec, "info")
TrimmedComponents == Item(trimmed_spec, "components")
original_info     == Get(spec, "info", EmptyDict)

\* what C14 says in both forms: the top-level fields, the info fields, the
\* paths and the schemas of the trimmed document are the allow-listed ones
AllowListedOnly ==
    /\ Keys(trimmed_spec) = {"openapi", "info", "servers", "security", "paths", "components"}
    /\ Item(trimmed_spec, "openapi") = Get(spec, "openapi", Other)
    /\ Item(trimmed_spec, "servers") = Get(spec, "servers", List(<<>>))
    /\ Item(trimmed_spec, "security") = Get(spec, "security", List(<<>>))
    /\ Keys(TrimmedInfo) = {"title", "description", "version"}
    /\ Keys(TrimmedPaths) \subseteq {"/chat/completions"}
    /\ Keys(TrimmedSchemas) \subseteq loaded

\* C14, as stated: the trimmed document holds allow-listed metadata fields,
\* allow-listed paths and schemas of the closure set, and nothing of any
\* other section or any other kind of component of the original.
C14_NoOtherComponent ==
    Built =>
        /\ AllowListedOnly
        /\ \A kind \in Keys(TrimmedComponents) \ {"schemas"} :
              Item(TrimmedComponents, kind) = EmptyDict

\* C14, amended: the trimmed document holds allow-listed metadata fields,
\* allow-listed paths, schemas of the closure set and the whole of the
\* original's components.securitySchemes, and nothing else of the original.
C14_AllowListedAndSecuritySchemes ==
    Built =>
        /\ AllowListedOnly
        /\ Keys(TrimmedComponents) = {"schemas", "securitySchemes"}
        /\ Item(TrimmedComponents, "securitySchemes")
              = Get(Get(spec, "components", EmptyDict), "securitySchemes", EmptyDict)

\* a trimmed document built from an original that has a tags section, an
\* extension section, a parameters component and a second path
C14_Witness ==
    /\ Built
    /\ {"tags", "x-oaiMeta"} \subseteq Keys(spec)
    /\ "parameters" \in Keys(Item(spec, "components"))
    /\ Keys(TrimmedSchemas) # {}
    /\ Keys(TrimmedPaths) # {}

\* C15: the title and the description of the trimmed document are the fixed
\* texts, whatever the original's are, and its version is the original's
\* info.version when the original has one.
C15_MetadataProjection ==
    Built =>
        /\ Item(TrimmedInfo, "title") = Title
        /\ Item(TrimmedInfo, "description") = Description
        /\ "version" \in Keys(original_info) =>
              Item(TrimmedInfo, "version") = Item(original_info, "version")

\* a trimmed document built from an original with a title, a description
\* and a version of its own
C15_Witness ==
    /\ Built
    /\ {"title", "description", "version"} \subseteq Keys(original_info)
    /\ Item(original_info, "title") # Title
    /\ Item(original_info, "description") # Description
    /\ Item(original_info, "version") # Str(<<"1.0.0">>)

\* C16: whatever tree of dicts, lists and scalars the original is and
\* whatever names are loaded, the projection does not raise.
C16_ProjectionTotal == tpc # "raised"

\* C17: the trimmed document that was built, the order of its schemas
\* included, is the one every iteration order of the loaded name set builds.
C17_StableSchemaOrder ==
    Built =>
        \A order \in Orders(loaded) :
            copy_schemas(copy_paths(skeleton), order).doc = trimmed_spec

-----------------------------------------------------------------------------
(* Repeated runs of update_context_symlinks.py (SpecLinks).                 *)

\* C19: a run that is no dry run and follows a run that is no dry run
\* changes nothing: it creates no symlink and updates none, every symlink is
\* already correct.
C19_SecondRunChangesNothing ==
    \A k \in 2..Len(summaries) :
        ~summaries[k - 1].dry_run /\ ~summaries[k].dry_run =>
            /\ summaries[k].created = 0
            /\ summaries[k].updated = 0
            /\ summaries[k].unchanged = summaries[k].total

-----------------------------------------------------------------------------
(* Resources and order of the closure loop (SpecExtract).                   *)

\* C21: the work queue never holds a name twice; the name a step takes from
\* the front is not in the queue after the step, and a name that is found
\* and has left the queue never enters it again; so the found names bound
\* the iterations, and they are never more than the roots and the defined
\* names.
C21_ProcessedOnce ==
    /\ [](Len(to_process) = Cardinality(Range(to_process)))
    /\ [][ /\ to_process' # to_process => Head(to_process) \notin Range(to_process')
           /\ \A n \in all_found_schemas \ Range(to_process) : n \notin Range(to_process')
         ]_vars
    /\ [](Cardinality(all_found_schemas) <= Cardinality(chat_schemas \cup Defined))

\* a finished closure in which two scanned definitions refer to the same
\* name, which is no root
C21_Witness ==
    /\ LoopEnded
    /\ \E n \in all_found_schemas \ chat_schemas :
          Cardinality({m \in all_found_schemas \cap Defined : n \in AllRefs(Item(schemas, m))}) >= 2

\* C22: in every step the found set after the step includes the found set
\* before it: no name is ever removed from all_found_schemas.
C22_FoundSetGrows == [][all_found_schemas \subseteq all_found_schemas']_vars

\* a finished closure whose found set has grown by two names
C22_Witness ==
    /\ LoopEnded
    /\ Cardinality(all_found_schemas) >= Cardinality(chat_schemas) + 2

\* the names at most k '$ref' edges away from the roots
RECURSIVE Within(_)
Within(k) == IF k = 0 THEN chat_schemas
             ELSE Bind(Within(k - 1), LAMBDA nearer : nearer \cup Targets(nearer))

\* the shortest '$ref' distance of a reachable name from the root set
Dist(n) == CHOOSE k \in 0..Cardinality(Defined) :
               n \in Within(k) /\ \A j \in 0..(k - 1) : n \notin Within(j)

\* the found names that have left the work queue: the scanned ones
Scanned == all_found_schemas \ Range(to_process)

\* C23: the queue is taken from the front and filled at the back, so the
\* names wait in it in non-decreasing order of their shortest distance from
\* the roots, and no scanned name is farther from the roots than a name
\* that still waits or is queued later.
C23_BreadthFirst ==
    /\ [](all_found_schemas \subseteq Within(Cardinality(Defined)))
    /\ [](\A i \in 1..(Len(to_process) - 1) :
              Dist(to_process[i]) <= Dist(to_process[i + 1]))
    /\ [](to_process # <<>> =>
              \E front \in {Dist(Head(to_process))} : \A n \in Scanned : Dist(n) <= front)
    /\ [][to_process' # to_process =>
              /\ Scanned' = Scanned \cup {Head(to_process)}
              /\ \E k \in 0..Len(to_process') :
                    to_process' = Tail(to_process) \o SubSeq(to_process', k + 1, Len(to_process'))
         ]_vars

\* a state of the loop in which every root and a name one edge from the
\* roots have been scanned and a name two edges from them waits in the queue
C23_Witness ==
    /\ pc = "loop"
    /\ to_process # <<>>
    /\ Dist(Head(to_process)) = 2
    /\ chat_schemas \subseteq Scanned
    /\ \E n \in Scanned : Dist(n) = 1

-----------------------------------------------------------------------------
(* The scan as a function of its arguments (SpecScan).                      *)

\* C24, as stated: a call leaves the node and the caller's visited set as
\* they were, and two successive calls on the node return the same set.
C24_CallsArePure ==
    /\ [][arg_schema' = arg_schema /\ arg_visited' = arg_visited]_vars
    /\ [](Len(ret_refs) = 2 => ret_refs[2] = ret_refs[1])

\* C24, amended: a call leaves the node as it was; without a visited set it
\* returns the same set every time, all the names referred to in the node;
\* with a visited set of the caller it returns the names that are not in
\* the set and adds them to the caller's set, so that a second call with
\* the set returns nothing.
C24_VisitedUpdatedInPlace ==
    /\ [][ /\ arg_schema' = arg_schema
           /\ arg_visited = <<>> =>
                 /\ arg_visited' = <<>>
                 /\ ret_refs' = Append(ret_refs, AllRefs(arg_schema))
           /\ arg_visited # <<>> =>
                 /\ ret_refs' = Append(ret_refs, AllRefs(arg_schema) \ arg_visited[1])
                 /\ arg_visited' = << arg_visited[1] \cup AllRefs(arg_schema) >>
         ]_vars
    /\ [](Len(ret_refs) = 2 =>
             IF arg_visited = <<>> THEN ret_refs[2] = ret_refs[1] ELSE ret_refs[2] = {})

\* two calls with the caller's visited set, which held a name of its own:
\* the first returned two names, the second none
C24_Witness ==
    /\ Len(ret_refs) = 2
    /\ arg_visited # <<>>
    /\ Cardinality(ret_refs[1]) = 2
    /\ ret_refs[2] = {}
    /\ arg_visited[1] \ ret_refs[1] # {}

-----------------------------------------------------------------------------
(* Frame of the projection and of both scripts.                             *)

\* the key paths of the path subtrees and schema definitions of trimmed_spec
CopiedSubtrees ==
    { <<"paths", k>> : k \in Keys(TrimmedPaths) }
    \cup { <<"components", "schemas", n>> : n \in Keys(TrimmedSchemas) }

\* C25 (SpecTrim): no path subtree and no schema definition of the trimmed
\* document is an object of the original, so that a change made through one
\* document cannot show in the other.
C25_CopiesByValue == Built => CopiedSubtrees \cap shared = {}

\* C26 (Spec): no step of the closure or of the projection changes the
\* original document or the catalog the closure reads, which is the
\* document's schemas section.
C26_OriginalReadOnly ==
    /\ [][spec' = spec /\ schemas' = schemas]_vars
    /\ [](schemas = components_schemas)

\* both scripts have run and the trimmed document holds a path and a schema
\* that are objects of the original
C26_Witness ==
    /\ tpc = "done"
    /\ DOMAIN extracted_schemas # {}
    /\ <<"paths", "/chat/completions">> \in shared
    /\ \E n \in Keys(TrimmedSchemas) : <<"components", "schemas", n>> \in shared

\* the str values stored under a '$ref' key, at any depth of the node
RECURSIVE RefValues(_)
RefValues(node) ==
    UNION { (IF node.t = "dict" /\ node.kv[i][1] = "$ref" /\ node.kv[i][2].t = "str"
             THEN {node.kv[i][2].s} ELSE {})
            \cup RefValues(node.kv[i][2]) : i \in 1..Len(node.kv) }

\* C27 (SpecScan): the name taken from a str under a '$ref' key is what
\* follows its last "/" (the whole str when it has none), whatever stands
\* before it; a call returns these names, one for all the references that
\* end in the same segment.
C27_TargetIsLastSegment ==
    /\ \A s \in RefValues(arg_schema) : ref_name(s) = LastSegment(s)
    /\ Len(ret_refs) >= 1 /\ arg_visited = <<>> =>
          ret_refs[1] = {LastSegment(s) : s \in RefValues(arg_schema)}

\* a call on a node with two references that differ before the last "/"
\* returned the one name
C27_Witness ==
    /\ Len(ret_refs) >= 1
    /\ arg_visited = <<>>
    /\ \E s, t \in RefValues(arg_schema) : s # t /\ Len(s) # Len(t) /\ LastSegment(s) = LastSegment(t)
    /\ ret_refs[1] = {"ChatCompletionTool"}

-----------------------------------------------------------------------------
(* The returned mapping and the side file.                                  *)

\* the defined names reachable from the defined names of S along '$ref'
\* edges whose targets are all defined
RECURSIVE ThroughDefined(_)
ThroughDefined(S) ==
    Bind((S \cup Targets(S)) \cap Defined, LAMBDA next :
        IF next = S \cap Defined THEN next ELSE ThroughDefined(next))

\* C28 (SpecExtract): the keys of the returned mapping are the defined
\* names that are roots or reachable from a defined root through defined
\* names only, and each key maps to the catalog's definition of the name.
C28_ExactResult ==
    pc \in {"extracted", "done"} =>
        /\ DOMAIN extracted_schemas = ThroughDefined(chat_schemas)
        /\ \A n \in DOMAIN extracted_schemas :
              extracted_schemas[n] = Item(components_schemas, n)

\* a returned mapping with a root and a name two references away, from a
\* catalog in which a kept definition refers to a name without an entry
C28_Witness ==
    /\ pc = "extracted"
    /\ Targets(DOMAIN extracted_schemas) \ Defined # {}
    /\ \E r \in chat_schemas \cap DOMAIN extracted_schemas :
       \E m \in Targets({r}) \ chat_schemas :
       \E n \in Targets({m}) \ (chat_schemas \cup {m}) : {m, n} \subseteq DOMAIN extracted_schemas

\* the lines f with the line l put in before line k + 1
InsertAt(f, k, l) == SubSeq(f, 1, k) \o <<l>> \o SubSeq(f, k + 1, Len(f))

\* C29 (Spec): the names load_chat_completion_schemas reads from the side
\* file main() wrote are the keys of the extracted mapping; the file holds
\* them one per line, sorted; and the file with a blank line put in at any
\* place gives the same names.
C29_NameListRoundTrip ==
    /\ tpc # "start" => loaded = DOMAIN extracted_schemas
    /\ pc = "done" =>
          /\ file = [i \in 1..Len(file) |-> <<sorted(DOMAIN extracted_schemas)[i], "\n">>]
          /\ Len(file) = Cardinality(DOMAIN extracted_schemas)
          /\ \A k \in 0..Len(file) : \A blank \in {<<"\n">>, <<" ", "\n">>} :
                line_names(InsertAt(file, k, blank)) = DOMAIN extracted_schemas

\* the trim script has loaded three names that the extract script saved
C29_Witness ==
    /\ tpc = "loaded"
    /\ Len(file) = 3
    /\ Cardinality(loaded) = 3

-----------------------------------------------------------------------------
(* Frame of the Cargo.toml filter (SpecCargo).                              *)

\* content.split("\n") of the written file: the lines between the newlines
RECURSIVE OutputLines(_, _)
OutputLines(content, current) ==
    IF content = <<>> THEN <<current>>
    ELSE IF Head(content) = "\n" THEN <<current>> \o OutputLines(Tail(content), <<>>)
    ELSE OutputLines(Tail(content), Append(current, Head(content)))

\* a section header: a line that starts with "["
IsHeader(l) == startswith(strip(l), <<"[">>)

\* line i lies inside the members array: after a `members = [` line, with
\* no closing `]` and no section header from there up to line i
InMembersArray(i) ==
    \E j \in 1..(i - 1) :
        /\ strip(lines[j]) = members_open
        /\ \A k \in (j + 1)..i : strip(lines[k]) # <<"]">> /\ ~IsHeader(lines[k])

\* line i lies inside [workspace.dependencies]: after its header, with no
\* other section header from there up to line i
InWorkspaceDeps(i) ==
    \E j \in 1..(i - 1) :
        /\ startswith(strip(lines[j]), workspace_deps_header)
        /\ \A k \in (j + 1)..i : ~IsHeader(lines[k])

IsLocalDependency(i) == InWorkspaceDeps(i) /\ occurs_in(local_path, lines[i])

\* the lines the filter may drop: quoted member entries other than
\* "crates/ci_optims", local path dependencies, and a blank line right
\* after one
Droppable ==
    { i \in 1..Len(lines) :
        \/ /\ InMembersArray(i)
           /\ startswith(strip(lines[i]), <<"\"">>)
           /\ ~occurs_in(ci_optims_member, lines[i])
        \/ IsLocalDependency(i)
        \/ i > 1 /\ IsLocalDependency(i - 1) /\ strip(lines[i]) = <<>> }

\* the lines without those at the places D
Remaining(D) ==
    LET kept == {i \in 1..Len(lines) : i \notin D}
        nth(k) == CHOOSE i \in kept : Cardinality({j \in kept : j <= i}) = k
    IN  [k \in 1..Cardinality(kept) |-> lines[nth(k)]]

\* C30: the written file holds the input lines in their order, all but
\* lines the filter may drop: every line after the closing `]` of the
\* members array and every line of another section is kept.
C30_FilterFrame ==
    output_file # <<>> =>
        \E D \in SUBSET Droppable : OutputLines(output_file[1], <<>>) = Remaining(D)

====
